---- MODULE Spec2Model ----
(***************************************************************************)
(* A model of the conversation-relay server: the Silence Monitor           *)
(* (SilenceHandler), the Call Orchestrator (ConversationRelayService), the *)
(* Turn-Taking Engine (LlmService, streaming and non-streaming variants)   *)
(* and the per-socket handlers of server.js with the Session Registry      *)
(* (customerDataMap) and the Ticketing Bridge (FlexService).               *)
(*                                                                         *)
(* The repository holds several variants of the same files; a variant is   *)
(* chosen in the initial state (engineKind, serverVersion).                *)
(***************************************************************************)
EXTENDS Integers, Sequences, FiniteSets, TLC

VARIABLES
    \* ---- Turn-Taking Engine (LlmService)
    engineKind,        \* "streaming" (LlmService.js 10-339) or "nonstreaming" (506-739)
    promptContext,     \* this.promptContext: the transcript
    turns,             \* one record per generateResponse invocation (its locals and position)
    llmOut,            \* the engine's emitted events, in order
    toolExecs,         \* tool executions performed, in order
    \* ---- Silence Monitor (SilenceHandler) and the orchestrator's reference to it
    now,               \* Date.now(), in seconds
    relayPc,           \* ConversationRelayService.setup(): "none" | "awaiting" | "done" | "threw"
    hasSilenceHandler, \* ConversationRelayService.silenceHandler !== null
    lastMessageTime,   \* SilenceHandler.lastMessageTime (-1 models null)
    silenceTimer,      \* "null" | "running" | "cleared": the interval handle;
                       \* "crashed": its callback threw and the process ended
    silenceRetryThreshold, \* SilenceHandler.silenceRetryThreshold
    silenceRetryCount, \* SilenceHandler.silenceRetryCount
    messageCallback,   \* SilenceHandler.messageCallback !== null
    silenceOut,        \* messages the monitor handed to its callback, in order
    \* ---- socket handler (server.js), Session Registry, Ticketing Bridge
    serverVersion,     \* "v1" (server.js) or "v2" (unnamed/part_003)
    callSessions,      \* two sockets side by side: each one's session variables, and
                       \* the promptContext arrays of the LlmService instances
    customerDataMap,   \* customerReference -> its entry (present: the map has the key)
    outboundPc,        \* position of the POST /outboundCall handler
    flexListener,      \* the reservationAccepted.<sid> listener is registered
    flexAccepted,      \* the Ticketing Bridge has emitted reservationAccepted.<sid>
    sessionCustomerData,   \* "null" | "undefined" | the customerReference of the entry
    sessionConversationRelay, \* "null" | "created" | "listening" (its response listener is on)
    setupPc,           \* the setup branch: "idle" | "waiting" | "done"
    promptPcs,         \* the handler of each prompt message: where it stands
    wsListeners,       \* the socket's 'message' / 'close' / 'error' listeners attached
    wsEvents,          \* 'close' / 'error' events the socket has emitted, in order
    wsOut,             \* messages sent on the socket (ws.send), in order
    wsClosedByServer,  \* the server has called ws.close()
    flexLog,           \* createConversationMessage calls posted, in order
    closeInteractionCalls, \* number of flexService.closeInteraction invocations
    errors,            \* exceptions raised, by place
    \* ---- history
    lastOp,            \* the operation that produced this state
    hist               \* facts about the past the claims refer to

engineVars == <<engineKind, promptContext, turns, llmOut, toolExecs>>
silenceVars == <<now, relayPc, hasSilenceHandler, lastMessageTime, silenceTimer,
                 silenceRetryThreshold, silenceRetryCount, messageCallback, silenceOut>>
socketVarsButErrors ==
    <<serverVersion, callSessions, customerDataMap, outboundPc, flexListener, flexAccepted,
      sessionCustomerData, sessionConversationRelay, setupPc, promptPcs, wsListeners,
      wsEvents, wsOut, wsClosedByServer, flexLog, closeInteractionCalls>>
socketVars == <<socketVarsButErrors, errors>>
vars == <<engineVars, silenceVars, socketVars, lastOp, hist>>

(***************************************************************************)
(* Bounds of the model.                                                    *)
(***************************************************************************)
MaxTurns == 2
MaxTime == 16
MaxSetups == 2
MaxCeiling == 4

(***************************************************************************)
(* Tool-call argument payloads.  A payload is a sequence of tokens: "{",   *)
(* "}" and "x" or "y" (one member with a scalar value).                    *)
(***************************************************************************)
RECURSIVE Depths(_, _)
\* The nesting depth after each token of s, starting from depth d.
Depths(s, d) ==
    IF s = <<>> THEN <<>>
    ELSE LET d2 == IF Head(s) = "{" THEN d + 1
                   ELSE IF Head(s) = "}" THEN d - 1 ELSE d
         IN <<d2>> \o Depths(Tail(s), d2)

\* JSON.parse(s) succeeds and yields an object: one balanced {...}, members inside.
JsonParsesAlways(s) == TRUE
JsonParses(s) ==
    /\ Len(s) >= 2
    /\ s[1] = "{"
    /\ LET ds == Depths(s, 0)
       IN /\ ds[Len(s)] = 0
          /\ \A i \in 1..(Len(s) - 1) : ds[i] >= 1

\* accumulatedArguments.match(/^(\{[^}]+\})/): the prefix up to the first "}",
\* when the payload opens with "{" and at least one token precedes that "}".
FirstObjectMatch(s) ==
    IF /\ Len(s) >= 3
       /\ s[1] = "{"
       /\ \E k \in 3..Len(s) : s[k] = "}" /\ \A j \in 2..(k - 1) : s[j] # "}"
    THEN LET k == CHOOSE k \in 3..Len(s) : s[k] = "}" /\ \A j \in 2..(k - 1) : s[j] # "}"
         IN SubSeq(s, 1, k)
    ELSE s

GoodArgs == <<"{", "x", "}">>
IncompleteArgs == <<"{", "x">>
TrailingArgs == <<"{", "x", "}", "x">>

(***************************************************************************)
(* The model's replies.  A reply is what one completion request yields:    *)
(* a number of content fragments and a list of tool calls.                 *)
(***************************************************************************)
Call(name, args) == [name |-> name, args |-> args]

Reply(r) ==
    CASE r = "text"    -> [text |-> 1, calls |-> <<>>]
      [] r = "empty"   -> [text |-> 0, calls |-> <<>>]
      [] r = "tool"    -> [text |-> 0, calls |-> <<Call("status-update", GoodArgs)>>]
      [] r = "handoff" -> [text |-> 0, calls |-> <<Call("live-agent-handoff", GoodArgs)>>]
      [] r = "badargs" -> [text |-> 0, calls |-> <<Call("send-dtmf", IncompleteArgs)>>]
      [] r = "two"     -> [text |-> 0, calls |-> <<Call("status-update", GoodArgs),
                                                   Call("send-dtmf", <<"{", "y", "}">>)>>]
      [] r = "endcall" -> [text |-> 0, calls |-> <<Call("end-call", GoodArgs)>>]
      [] r = "dtmf"    -> [text |-> 0, calls |-> <<Call("send-dtmf", GoodArgs)>>]
      [] r = "noname"  -> [text |-> 0, calls |-> <<Call("", GoodArgs)>>]
      [] r = "badtool" -> [text |-> 0, calls |-> <<Call("status-update", IncompleteArgs)>>]
      [] r = "trailing" -> [text |-> 0, calls |-> <<Call("status-update", TrailingArgs)>>]

\* What a completion request of a turn may yield.
Replies == {"text", "tool", "handoff", "badargs", "two"}
\* What the follow-up completion (no tools offered) may yield.
FollowUpReplies == {"text", "empty"}
\* Every kind of reply, and a follow-up that asks for a tool again.
ToolReplies == Replies \cup {"endcall", "dtmf", "noname", "badtool", "trailing"}
ToolFollowUps == FollowUpReplies \cup {"tool"}

\* The identifier the model gives tool call number k (from 1) of turn t.
CallId(t, k) == 10 * t + k

\* One streamed chunk: choices[0].delta.content, .delta.tool_calls, .finish_reason.
Chunk(content, frags, finish) == [content |-> content, frags |-> frags, finish |-> finish]
Frag(index, id, name, args) == [index |-> index, id |-> id, name |-> name, args |-> args]

RECURSIVE CallChunks(_, _, _)
\* The fragments of tool calls k.. of a reply: the first fragment of a call carries
\* its index, id, name and the first argument token, the second the rest.
CallChunks(t, calls, k) ==
    IF k > Len(calls) THEN <<>>
    ELSE LET c == calls[k]
             first == IF c.args = <<>> THEN <<>> ELSE <<Head(c.args)>>
             rest == IF c.args = <<>> THEN <<>> ELSE Tail(c.args)
         IN <<Chunk(FALSE, <<Frag(k - 1, CallId(t, k), c.name, first)>>, "none")>>
            \o (IF rest = <<>> THEN <<>>
                ELSE <<Chunk(FALSE, <<Frag(k - 1, 0, "", rest)>>, "none")>>)
            \o CallChunks(t, calls, k + 1)

\* The chunks of the stream that delivers reply r to turn t.
StreamOf(t, r) ==
    LET rep == Reply(r)
    IN [i \in 1..rep.text |-> Chunk(TRUE, <<>>, "none")]
       \o CallChunks(t, rep.calls, 1)
       \o <<Chunk(FALSE, <<>>, IF rep.calls = <<>> THEN "stop" ELSE "tool_calls")>>

(***************************************************************************)
(* Transcript entries and the completion API's pairing contract.           *)
(***************************************************************************)
Msg(role, t) == [role |-> role, calls |-> {}, id |-> 0, turn |-> t]
AssistantCalls(ids, t) == [role |-> "assistant", calls |-> ids, id |-> 0, turn |-> t]
ToolMsg(id, t) == [role |-> "tool", calls |-> {}, id |-> id, turn |-> t]

\* The API accepts a message list when every tool message answers an assistant
\* message's tool call, with only tool messages between the two.
ApiAccepts(ctx) ==
    \A i \in 1..Len(ctx) :
        ctx[i].role = "tool" =>
            \E j \in 1..(i - 1) :
                /\ ctx[j].role = "assistant"
                /\ ctx[i].id \in ctx[j].calls
                /\ \A k \in (j + 1)..(i - 1) : ctx[k].role = "tool"

(***************************************************************************)
(* LlmService: events, the turn record, executeToolCall.                   *)
(***************************************************************************)
Event(t, type, last, empty, reasonCode) ==
    [turn |-> t, type |-> type, last |-> last, empty |-> empty, reasonCode |-> reasonCode]
TextEvent(t, last, empty) == Event(t, "text", last, empty, "")
ErrorEvent(t) == Event(t, "error", TRUE, FALSE, "")
LlmErrorEvent(t) == Event(t, "llm.error", FALSE, FALSE, "")

IdleTurn ==
    [pc |-> "idle", reply |-> "none", role |-> "none", pos |-> 0, fullResponse |-> 0,
     hasCollector |-> FALSE, collId |-> 0, collName |-> "", accArgs |-> <<>>,
     apiOk |-> TRUE, fReply |-> "none", fpos |-> 0, callIdx |-> 0, result |-> "none",
     completions |-> 0, rawArgs |-> <<>>]

\* A turn that ended: its locals are gone; what it was given, the number of
\* completion requests it made (openai.chat.completions.create) and how it
\* ended remain.
Ended(turn, result) ==
    [IdleTurn EXCEPT !.pc = "done", !.reply = turn.reply, !.role = turn.role,
                     !.fReply = turn.fReply, !.result = result,
                     !.completions = turn.completions]
Threw(turn) == Ended(turn, "threw")
Returned(turn, result) == Ended(turn, result)

\* executeToolCall without the try/catch around the call of the endpoint.
ExecuteToolCallUnguarded(name, args, fetchOk) ==
    IF name = "" \/ args = <<>> \/ ~JsonParses(args)
    THEN [type |-> "error", reasonCode |-> "", dispatched |-> FALSE]
    ELSE CASE name = "live-agent-handoff" ->
                [type |-> "throw", reasonCode |-> "", dispatched |-> TRUE]
           [] name = "send-dtmf" -> [type |-> "sendDigits", reasonCode |-> "", dispatched |-> TRUE]
           [] name = "end-call" -> [type |-> "end", reasonCode |-> "end-call", dispatched |-> TRUE]
           [] OTHER -> IF fetchOk
                       THEN [type |-> "text", reasonCode |-> "", dispatched |-> TRUE]
                       ELSE [type |-> "throw", reasonCode |-> "", dispatched |-> TRUE]

\* executeToolCall (LlmService.js 28-135): the envelope's type, or "throw".
\* fetchOk: the business-tool endpoint answered 2xx.
ExecuteToolCall(name, args, fetchOk) ==
    IF name = "" \/ args = <<>> THEN [type |-> "error", reasonCode |-> "", dispatched |-> FALSE]
    ELSE IF ~JsonParses(args) THEN [type |-> "error", reasonCode |-> "", dispatched |-> FALSE]
    ELSE CASE name = "live-agent-handoff" ->
                \* handoffSummary is not declared in this scope: a ReferenceError
                [type |-> "throw", reasonCode |-> "", dispatched |-> TRUE]
           [] name = "send-dtmf" -> [type |-> "sendDigits", reasonCode |-> "", dispatched |-> TRUE]
           [] name = "end-call" -> [type |-> "end", reasonCode |-> "end-call", dispatched |-> TRUE]
           [] OTHER -> IF fetchOk
                       THEN [type |-> "text", reasonCode |-> "", dispatched |-> TRUE]
                       ELSE [type |-> "error", reasonCode |-> "", dispatched |-> TRUE]

\* The first turn record not yet used.
FreshTurn(t) == turns[t].pc = "idle" /\ \A s \in 1..(t - 1) : turns[s].pc # "idle"

\* generateResponse up to its first await (LlmService.js 145-158 and 549-559):
\* the prompt is appended and the completion request is sent.
GenerateResponseOp(t, role) ==
    /\ turns[t].pc = "idle"
    /\ LET ctx == Append(promptContext, Msg(role, t))
       IN /\ promptContext' = ctx
          /\ turns' = [turns EXCEPT ![t] =
                [IdleTurn EXCEPT !.pc = "create", !.role = role,
                                 !.apiOk = ApiAccepts(ctx), !.completions = 1]]
    /\ UNCHANGED <<engineKind, llmOut, toolExecs>>

GeneratedId(t) == 10 * t

RECURSIVE ApplyFrags(_, _, _)
\* The loop over delta.tool_calls (LlmService.js 177-200) on the turn's locals;
\* pc "threw" when toolCallCollector is still null where its name is assigned.
ApplyFrags(t, frags, turn) ==
    IF frags = <<>> \/ turn.result = "threw" THEN turn
    ELSE LET f == Head(frags)
             t1 == IF f.index = 0 /\ ~turn.hasCollector
                   THEN [turn EXCEPT !.hasCollector = TRUE,
                                     !.collId = IF f.id # 0 THEN f.id ELSE GeneratedId(t),
                                     !.collName = ""]
                   ELSE turn
             t2 == IF f.name # ""
                   THEN IF t1.hasCollector THEN [t1 EXCEPT !.collName = f.name]
                        ELSE Threw(t1)
                   ELSE t1
             t3 == IF f.args # <<>> /\ t2.result # "threw"
                   THEN [t2 EXCEPT !.accArgs = t2.accArgs \o f.args]
                   ELSE t2
         IN ApplyFrags(t, Tail(frags), t3)

\* The validation once finish_reason is 'tool_calls' (LlmService.js 202-257):
\* an error is emitted and returned, or executeToolCall is awaited; rawArgs
\* keeps accumulatedArguments as it was before the first-object match.
FinishToolCalls(t, turn) ==
    IF turn.collName = ""
    THEN [turn |-> Returned(turn, "error"), out |-> <<ErrorEvent(t)>>]
    ELSE IF turn.accArgs = <<>>
    THEN [turn |-> Returned(turn, "error"), out |-> <<ErrorEvent(t)>>]
    ELSE LET args == FirstObjectMatch(turn.accArgs)
         IN IF ~JsonParses(args)
            THEN [turn |-> Returned([turn EXCEPT !.accArgs = args], "error"),
                  out |-> <<ErrorEvent(t)>>]
            ELSE [turn |-> [turn EXCEPT !.accArgs = args, !.rawArgs = turn.accArgs,
                                        !.pc = "tool"],
                  out |-> <<>>]

\* The completion request is answered: the stream opens, or the request fails
\* (catch: 'llm.error' is emitted and the error rethrown).
StreamOpenedOp(t, reply) ==
    /\ engineKind = "streaming"
    /\ turns[t].pc = "create"
    /\ IF turns[t].apiOk
       THEN /\ turns' = [turns EXCEPT ![t].pc = "stream", ![t].pos = 1, ![t].reply = reply]
            /\ UNCHANGED llmOut
       ELSE /\ turns' = [turns EXCEPT ![t] = Threw(@)]
            /\ llmOut' = Append(llmOut, LlmErrorEvent(t))
    /\ UNCHANGED <<engineKind, promptContext, toolExecs>>

\* One iteration of the for-await loop over the stream (LlmService.js 160-257).
StreamChunkOp(t) ==
    /\ engineKind = "streaming"
    /\ turns[t].pc = "stream"
    /\ turns[t].pos <= Len(StreamOf(t, turns[t].reply))
    /\ LET ch == StreamOf(t, turns[t].reply)[turns[t].pos]
           t1 == IF ch.content THEN [turns[t] EXCEPT !.fullResponse = @ + 1] ELSE turns[t]
           o1 == IF ch.content THEN <<TextEvent(t, FALSE, FALSE)>> ELSE <<>>
           t2 == ApplyFrags(t, ch.frags, t1)
       IN IF t2.result = "threw"
          THEN /\ turns' = [turns EXCEPT ![t] = t2]
               /\ llmOut' = llmOut \o o1 \o <<LlmErrorEvent(t)>>
          ELSE IF ch.finish = "tool_calls" /\ t2.hasCollector
          THEN LET r == FinishToolCalls(t, t2)
               IN /\ turns' = [turns EXCEPT ![t] = r.turn]
                  /\ llmOut' = llmOut \o o1 \o r.out
          ELSE /\ turns' = [turns EXCEPT ![t] = [t2 EXCEPT !.pos = @ + 1]]
               /\ llmOut' = llmOut \o o1
    /\ UNCHANGED <<engineKind, promptContext, toolExecs>>

\* executeToolCall returns (LlmService.js 257-290): an end or error result is
\* returned; otherwise the assistant and tool entries are appended and the
\* follow-up completion is requested.
ToolReturnsOp(t, fetchOk, followUp) ==
    /\ engineKind = "streaming"
    /\ turns[t].pc = "tool"
    /\ LET res == ExecuteToolCall(turns[t].collName, turns[t].accArgs, fetchOk)
           ctx == promptContext \o <<AssistantCalls({turns[t].collId}, t),
                                     ToolMsg(turns[t].collId, t)>>
       IN /\ toolExecs' = IF res.dispatched
                          THEN Append(toolExecs, [turn |-> t, name |-> turns[t].collName,
                                                  args |-> turns[t].accArgs])
                          ELSE toolExecs
          /\ IF res.type = "throw"
             THEN /\ turns' = [turns EXCEPT ![t] = Threw(@)]
                  /\ llmOut' = Append(llmOut, LlmErrorEvent(t))
                  /\ UNCHANGED promptContext
             ELSE IF res.type \in {"end", "error"}
             THEN /\ turns' = [turns EXCEPT ![t] = Returned(@, res.type)]
                  /\ UNCHANGED <<llmOut, promptContext>>
             ELSE /\ promptContext' = ctx
                  /\ turns' = [turns EXCEPT ![t].pc = "followupCreate",
                                            ![t].fReply = followUp,
                                            ![t].apiOk = ApiAccepts(ctx),
                                            ![t].completions = @ + 1]
                  /\ UNCHANGED llmOut
    /\ UNCHANGED engineKind

\* The follow-up request is answered.
FollowUpOpenedOp(t) ==
    /\ engineKind = "streaming"
    /\ turns[t].pc = "followupCreate"
    /\ IF turns[t].apiOk
       THEN /\ turns' = [turns EXCEPT ![t].pc = "followup", ![t].fpos = 1]
            /\ UNCHANGED llmOut
       ELSE /\ turns' = [turns EXCEPT ![t] = Threw(@)]
            /\ llmOut' = Append(llmOut, LlmErrorEvent(t))
    /\ UNCHANGED <<engineKind, promptContext, toolExecs>>

\* The loop over the follow-up stream reads delta.content only: no chunk of
\* the follow-up makes it execute a tool.
FollowUpChunkCallsToolAtFinish(ch) == ch.finish = "tool_calls"
FollowUpChunkCallsTool(ch) == FALSE

\* One iteration of the loop over the follow-up stream (LlmService.js 292-305);
\* at its end the outer loop goes on with the next chunk.
FollowUpChunkOp(t) ==
    /\ engineKind = "streaming"
    /\ turns[t].pc = "followup"
    /\ LET st == StreamOf(t, turns[t].fReply)
       IN IF turns[t].fpos > Len(st)
          THEN /\ turns' = [turns EXCEPT ![t].pc = "stream", ![t].pos = @ + 1]
               /\ UNCHANGED llmOut
          ELSE IF FollowUpChunkCallsTool(st[turns[t].fpos])
          THEN /\ turns' = [turns EXCEPT ![t].pc = "tool"]
               /\ UNCHANGED llmOut
          ELSE IF st[turns[t].fpos].content
          THEN /\ turns' = [turns EXCEPT ![t].fpos = @ + 1, ![t].fullResponse = @ + 1]
               /\ llmOut' = Append(llmOut, TextEvent(t, FALSE, FALSE))
          ELSE /\ turns' = [turns EXCEPT ![t].fpos = @ + 1]
               /\ UNCHANGED llmOut
    /\ UNCHANGED <<engineKind, promptContext, toolExecs>>

\* The stream is exhausted (LlmService.js 309-322): the assistant entry is
\* appended if no tool was called, and the final fragment is emitted.
StreamEndOp(t) ==
    /\ engineKind = "streaming"
    /\ turns[t].pc = "stream"
    /\ turns[t].pos > Len(StreamOf(t, turns[t].reply))
    /\ promptContext' = IF turns[t].hasCollector THEN promptContext
                        ELSE Append(promptContext, Msg("assistant", t))
    /\ llmOut' = Append(llmOut, TextEvent(t, TRUE, turns[t].fullResponse = 0))
    /\ turns' = [turns EXCEPT ![t] = Returned(@, "ok")]
    /\ UNCHANGED <<engineKind, toolExecs>>

(***************************************************************************)
(* LlmService, non-streaming variant (LlmService.js 549-728).              *)
(***************************************************************************)
CallIds(t, calls) == {CallId(t, k) : k \in 1..Len(calls)}
Exec(t, c) == [turn |-> t, name |-> c.name, args |-> c.args]

RECURSIVE NsRun(_, _, _)
\* The loop over the tool calls from call st.turn.callIdx on (LlmService.js
\* 571-690), up to its next await.  st: the transcript, the events emitted, the
\* tool executions and the turn record so far.
NsRun(t, calls, st) ==
    LET k == st.turn.callIdx
    IN IF k > Len(calls)
       THEN \* all tool responses collected: the final completion is requested
            [st EXCEPT !.turn.pc = "nsFinal", !.turn.apiOk = ApiAccepts(st.ctx),
                       !.turn.completions = @ + 1]
       ELSE IF calls[k].name = "send-dtmf"
       THEN IF ~JsonParses(calls[k].args)
            THEN [st EXCEPT !.turn = Threw(@), !.execs = Append(@, Exec(t, calls[k]))]
            ELSE NsRun(t, calls,
                       [st EXCEPT !.ctx = Append(@, ToolMsg(CallId(t, k), t)),
                                  !.out = Append(@, Event(t, "sendDigits", FALSE, FALSE, "")),
                                  !.execs = Append(@, Exec(t, calls[k])),
                                  !.turn.callIdx = k + 1])
       ELSE \* the summary completion or the business-tool fetch is awaited
            [st EXCEPT !.turn.pc = "nsAwait", !.execs = Append(@, Exec(t, calls[k])),
                       !.turn.completions =
                           IF calls[k].name \in {"live-agent-handoff", "end-call"}
                           THEN @ + 1 ELSE @]

NsState(turn) == [ctx |-> promptContext, out |-> llmOut, execs |-> toolExecs, turn |-> turn]

NsCommit(t, st) ==
    /\ promptContext' = st.ctx
    /\ llmOut' = st.out
    /\ toolExecs' = st.execs
    /\ turns' = [turns EXCEPT ![t] = st.turn]

\* The completion request is answered (LlmService.js 562-571 and 712-723).
NsResponseOp(t, reply) ==
    /\ engineKind = "nonstreaming"
    /\ turns[t].pc = "create"
    /\ LET rep == Reply(reply)
           turn == [turns[t] EXCEPT !.reply = reply]
       IN IF ~turns[t].apiOk
          THEN NsCommit(t, [NsState(turns[t]) EXCEPT !.turn = Threw(@)])
          ELSE IF rep.calls = <<>>
          THEN NsCommit(t, [NsState(turn) EXCEPT
                    !.ctx = Append(@, Msg("assistant", t)),
                    !.out = Append(@, TextEvent(t, TRUE, rep.text = 0)),
                    !.turn = Returned(@, "ok")])
          ELSE NsCommit(t, NsRun(t, rep.calls, [NsState(turn) EXCEPT
                    !.ctx = Append(@, AssistantCalls(CallIds(t, rep.calls), t)),
                    !.turn.callIdx = 1]))
    /\ UNCHANGED engineKind

\* The awaited summary or fetch of the current tool call resolves (ok) or
\* rejects; the tool entry is appended, its event emitted, and the loop goes on.
NsAwaitDoneOp(t, ok) ==
    /\ engineKind = "nonstreaming"
    /\ turns[t].pc = "nsAwait"
    /\ LET calls == Reply(turns[t].reply).calls
           k == turns[t].callIdx
           c == calls[k]
           ev == CASE c.name = "live-agent-handoff" ->
                        Event(t, "end", FALSE, FALSE, "live-agent-handoff")
                   [] c.name = "end-call" -> Event(t, "end", FALSE, FALSE, "end-call")
                   [] OTHER -> TextEvent(t, FALSE, FALSE)
           parseThrows == c.name = "end-call" /\ ~JsonParses(c.args)
       IN IF ~ok \/ parseThrows
          THEN NsCommit(t, [NsState(turns[t]) EXCEPT !.turn = Threw(@)])
          ELSE NsCommit(t, NsRun(t, calls, [NsState(turns[t]) EXCEPT
                    !.ctx = Append(@, ToolMsg(CallId(t, k), t)),
                    !.out = Append(@, ev),
                    !.turn.callIdx = k + 1]))
    /\ UNCHANGED engineKind

\* The final completion is answered (LlmService.js 693-711).
NsFinalOp(t, followUp) ==
    /\ engineKind = "nonstreaming"
    /\ turns[t].pc = "nsFinal"
    /\ IF ~turns[t].apiOk
       THEN NsCommit(t, [NsState(turns[t]) EXCEPT !.turn = Threw(@)])
       ELSE NsCommit(t, [NsState(turns[t]) EXCEPT
                !.ctx = Append(@, Msg("assistant", t)),
                !.out = Append(@, TextEvent(t, TRUE, Reply(followUp).text = 0)),
                !.turn = Returned([@ EXCEPT !.fReply = followUp], "ok")])
    /\ UNCHANGED engineKind

(***************************************************************************)
(* The engine alone: turns are started by its caller at any time, so turns *)
(* of one call may overlap.                                                *)
(***************************************************************************)
Turns == 1..MaxTurns

InitEngine ==
    /\ engineKind \in {"streaming", "nonstreaming"}
    /\ promptContext = <<Msg("system", 0)>>
    /\ turns = [t \in Turns |-> IdleTurn]
    /\ llmOut = <<>>
    /\ toolExecs = <<>>

SILENCE_SECONDS_THRESHOLD == 5
SILENCE_RETRY_THRESHOLD == 3

\* The monitor before it exists; its retry ceiling comes from the environment
\* (process.env.SILENCE_RETRY_THRESHOLD, 3 when unset).
InitMonitor ==
    /\ now = 0
    /\ relayPc = "none"
    /\ hasSilenceHandler = FALSE
    /\ lastMessageTime = -1
    /\ silenceTimer = "null"
    /\ silenceRetryCount = 0
    /\ messageCallback = FALSE
    /\ silenceOut = <<>>

InitSilence ==
    /\ InitMonitor
    /\ silenceRetryThreshold = SILENCE_RETRY_THRESHOLD

\* The customerReference values a setup message may carry; only the first is
\* ever registered by an outbound-call request.
Tokens == {"AC123", "ZZ999"}
NoEntry == [present |-> FALSE, flexInteraction |-> FALSE, reservation |-> FALSE]
NoPrompt == [pc |-> "none", step |-> 0, sid |-> FALSE]

\* Two call sessions, each with the correlation token its setup message
\* carries.
Calls == {1, 2}
CallToken(c) == IF c = 1 THEN "AC123" ELSE "ZZ999"
NoSession == [scd |-> "null", relay |-> "null", silenceTimer |-> "null", silenceRetryCount |-> 0]
InitCalls == [session |-> [c \in Calls |-> NoSession],
              arrays |-> [c \in Calls |-> <<>>]]

InitSocket ==
    /\ serverVersion \in {"v1", "v2"}
    /\ callSessions = InitCalls
    /\ customerDataMap = [r \in Tokens |-> NoEntry]
    /\ outboundPc = "idle"
    /\ flexListener = FALSE
    /\ flexAccepted = FALSE
    /\ sessionCustomerData = "null"
    /\ sessionConversationRelay = "null"
    /\ setupPc = "idle"
    /\ promptPcs = [u \in Turns |-> NoPrompt]
    /\ wsListeners = {"message", "close", "error"}
    /\ wsEvents = <<>>
    /\ wsOut = <<>>
    /\ wsClosedByServer = FALSE
    /\ flexLog = <<>>
    /\ closeInteractionCalls = 0
    /\ errors = {}

InitHist ==
    /\ lastOp = "other"
    /\ hist = [start |-> -1, activity |-> FALSE, lastActivity |-> -1, outAtActivity |-> 0,
               lookupOk |-> FALSE, missed |-> FALSE, degraded |-> FALSE, setups |-> 0,
               endedWithTicket |-> FALSE]

Init == InitEngine /\ InitSilence /\ InitSocket /\ InitHist

GenerateResponse(t) ==
    /\ FreshTurn(t)
    /\ GenerateResponseOp(t, "user")
    /\ UNCHANGED <<silenceVars, socketVars, lastOp, hist>>

EngineFrame == UNCHANGED <<silenceVars, socketVars, lastOp, hist>>

StreamOpened(t, reply) == StreamOpenedOp(t, reply) /\ EngineFrame
StreamChunk(t) == StreamChunkOp(t) /\ EngineFrame
ToolReturns(t, fetchOk, f) == ToolReturnsOp(t, fetchOk, f) /\ EngineFrame
FollowUpOpened(t) == FollowUpOpenedOp(t) /\ EngineFrame
FollowUpChunk(t) == FollowUpChunkOp(t) /\ EngineFrame
StreamEnd(t) == StreamEndOp(t) /\ EngineFrame
NsResponse(t, reply) == NsResponseOp(t, reply) /\ EngineFrame
NsAwaitDone(t, ok) == NsAwaitDoneOp(t, ok) /\ EngineFrame
NsFinal(t, f) == NsFinalOp(t, f) /\ EngineFrame

NextEngine ==
    \/ \E t \in Turns : GenerateResponse(t)
    \/ \E t \in Turns, reply \in Replies : StreamOpened(t, reply)
    \/ \E t \in Turns : StreamChunk(t)
    \/ \E t \in Turns, fetchOk \in BOOLEAN, f \in FollowUpReplies : ToolReturns(t, fetchOk, f)
    \/ \E t \in Turns : FollowUpOpened(t)
    \/ \E t \in Turns : FollowUpChunk(t)
    \/ \E t \in Turns : StreamEnd(t)
    \/ \E t \in Turns, reply \in Replies : NsResponse(t, reply)
    \/ \E t \in Turns, ok \in BOOLEAN : NsAwaitDone(t, ok)
    \/ \E t \in Turns, f \in FollowUpReplies : NsFinal(t, f)

InitOfEngine == Init /\ serverVersion = "v2"

SpecEngine == InitOfEngine /\ [][NextEngine]_vars

(***************************************************************************)
(* The engine driven one turn at a time, with every kind of reply: the     *)
(* caller starts a turn once the turn before it has ended.                 *)
(***************************************************************************)
TurnInFlight == \E t \in Turns : turns[t].pc \notin {"idle", "done"}

GenerateResponseInTurn(t) == ~TurnInFlight /\ GenerateResponse(t)

NextTools ==
    \/ \E t \in Turns : GenerateResponseInTurn(t)
    \/ \E t \in Turns, reply \in ToolReplies : StreamOpened(t, reply)
    \/ \E t \in Turns : StreamChunk(t)
    \/ \E t \in Turns, fetchOk \in BOOLEAN, f \in ToolFollowUps : ToolReturns(t, fetchOk, f)
    \/ \E t \in Turns : FollowUpOpened(t)
    \/ \E t \in Turns : FollowUpChunk(t)
    \/ \E t \in Turns : StreamEnd(t)
    \/ \E t \in Turns, reply \in ToolReplies : NsResponse(t, reply)
    \/ \E t \in Turns, ok \in BOOLEAN : NsAwaitDone(t, ok)
    \/ \E t \in Turns, f \in FollowUpReplies : NsFinal(t, f)

SpecTools == InitOfEngine /\ [][NextTools]_vars

(***************************************************************************)
(* Silence Monitor (SilenceHandler) and the orchestrator                   *)
(* (ConversationRelayService) that owns it.  Time is counted in seconds:   *)
(* the interval callback runs once per second of the clock.                *)
(***************************************************************************)
\* createSilenceBreakerMessage: defined for the first two reminders only.
CreateSilenceBreakerMessage(count) ==
    CASE count = 1 -> [type |-> "text", token |-> "Still there?", reasonCode |-> ""]
      [] count = 2 -> [type |-> "text", token |-> "Just checking you are still there?",
                       reasonCode |-> ""]
      [] OTHER -> [type |-> "undefined", token |-> "", reasonCode |-> ""]

CreateEndCallMessage == [type |-> "end", token |-> "", reasonCode |-> "unresponsive"]

\* A message handed to the callback at time t.
Delivered(msg, t) == [msg |-> msg, at |-> t]

\* silenceTime >= this.silenceSecondsThreshold
ThresholdReachedStrictly(silenceTime) == silenceTime > SILENCE_SECONDS_THRESHOLD
ThresholdReached(silenceTime) == silenceTime >= SILENCE_SECONDS_THRESHOLD

\* new SilenceHandler() followed by startMonitoring(onMessage).
StartMonitoringOp ==
    /\ lastMessageTime' = now
    /\ messageCallback' = TRUE
    /\ silenceTimer' = "running"
    /\ silenceRetryCount' = 0

\* this.silenceRetryCount >= this.silenceRetryThreshold
CeilingReachedStrictly(count, ceiling) == count > ceiling
CeilingReached(count, ceiling) == count >= ceiling

\* The callback given to startMonitoring reads silenceMessage.type
\* (ConversationRelayService.js 130-138): a TypeError when the message is
\* undefined.
CallbackThrows(msg) == msg.type = "undefined"

\* The interval callback, run at time t.  When the callback throws, the
\* exception leaves the interval callback uncaught: lastMessageTime is not
\* written and the process ends.
IntervalOp(t) ==
    IF ThresholdReached(t - lastMessageTime)
    THEN LET count == silenceRetryCount + 1
             msg == CreateSilenceBreakerMessage(count)
         IN /\ silenceRetryCount' = count
            /\ IF CeilingReached(count, silenceRetryThreshold)
               THEN /\ silenceTimer' = "cleared"
                    /\ silenceOut' = IF messageCallback
                                     THEN Append(silenceOut, Delivered(CreateEndCallMessage, t))
                                     ELSE silenceOut
                    /\ lastMessageTime' = t
               ELSE IF messageCallback /\ CallbackThrows(msg)
               THEN /\ silenceTimer' = "crashed"
                    /\ silenceOut' = Append(silenceOut, Delivered(msg, t))
                    /\ lastMessageTime' = lastMessageTime
               ELSE /\ silenceTimer' = silenceTimer
                    /\ silenceOut' = IF messageCallback
                                     THEN Append(silenceOut, Delivered(msg, t))
                                     ELSE silenceOut
                    /\ lastMessageTime' = t
    ELSE UNCHANGED <<silenceRetryCount, silenceTimer, silenceOut, lastMessageTime>>

\* resetTimer()
ResetTimerOp ==
    IF lastMessageTime # -1
    THEN lastMessageTime' = now /\ silenceRetryCount' = 0
    ELSE UNCHANGED <<lastMessageTime, silenceRetryCount>>

\* SilenceHandler.cleanup(): the handle is cleared but stays in silenceTimer.
SilenceCleanupOp ==
    IF silenceTimer # "null"
    THEN silenceTimer' = "cleared" /\ messageCallback' = FALSE
    ELSE UNCHANGED <<silenceTimer, messageCallback>>

\* if (this.silenceHandler && message.type !== 'info')
ResetsTimerNever(handler, type) == FALSE
ResetsTimerOnEvery(handler, type) == handler
ResetsTimer(handler, type) == handler /\ type # "info"

\* if (this.silenceHandler) in ConversationRelayService.cleanup()
CleanupGuardAlways(handler) == TRUE
CleanupGuard(handler) == handler

MessageTypes == {"info", "prompt", "interrupt", "dtmf"}

SilenceFrame == UNCHANGED socketVars

\* One second passes; a running interval fires.  The clock starts with setup().
TickUntil(limit) ==
    /\ relayPc # "none"
    /\ now < limit
    /\ now' = now + 1
    /\ IF silenceTimer = "running"
       THEN IntervalOp(now + 1)
       ELSE UNCHANGED <<silenceRetryCount, silenceTimer, silenceOut, lastMessageTime>>
    /\ lastOp' = "other"
    /\ UNCHANGED <<relayPc, hasSilenceHandler, messageCallback, silenceRetryThreshold,
                   engineVars, hist>>
    /\ SilenceFrame

Tick == TickUntil(MaxTime)

\* ConversationRelayService.setup() up to its await: the engine is given the
\* call's details as a system prompt.
RelaySetupOp ==
    /\ relayPc = "none"
    /\ relayPc' = "awaiting"
    /\ promptContext' = Append(promptContext, Msg("system", 0))
    /\ UNCHANGED <<engineKind, turns, llmOut, toolExecs, now, hasSilenceHandler,
                   lastMessageTime, silenceTimer, silenceRetryThreshold, silenceRetryCount,
                   messageCallback, silenceOut>>

RelaySetup ==
    /\ RelaySetupOp
    /\ lastOp' = "other"
    /\ UNCHANGED hist
    /\ SilenceFrame

\* The awaited generateResponse('system', ...) settles.  Resolved (a plain-text
\* greeting): the monitor is created and started.  Rejected: setup() throws
\* and no monitor exists.
RelaySetupResumesOp(ok) ==
    /\ relayPc = "awaiting"
    /\ IF ok
       THEN /\ relayPc' = "done"
            /\ promptContext' = Append(promptContext, Msg("assistant", 0))
            /\ llmOut' = llmOut \o <<TextEvent(0, FALSE, FALSE), TextEvent(0, TRUE, FALSE)>>
            /\ hasSilenceHandler' = TRUE
            /\ StartMonitoringOp
            /\ hist' = [hist EXCEPT !.start = now]
       ELSE /\ relayPc' = "threw"
            /\ llmOut' = Append(llmOut, LlmErrorEvent(0))
            /\ UNCHANGED <<promptContext, hasSilenceHandler, lastMessageTime,
                           messageCallback, silenceTimer, silenceRetryCount, hist>>
    /\ UNCHANGED <<engineKind, turns, toolExecs, now, silenceOut, silenceRetryThreshold>>

RelaySetupResumes(ok) ==
    /\ RelaySetupResumesOp(ok)
    /\ lastOp' = "other"
    /\ SilenceFrame

\* switch (message.type): only case 'prompt' calls generateResponse.
StartsTurnUnlessInfo(type) == type # "info"
StartsTurn(type) == type = "prompt"

\* ConversationRelayService.handleMessage(message) up to its first await.
HandleMessageOp(type, t) ==
    /\ IF ResetsTimer(hasSilenceHandler, type)
       THEN ResetTimerOp
       ELSE UNCHANGED <<lastMessageTime, silenceRetryCount>>
    /\ IF StartsTurn(type)
       THEN GenerateResponseOp(t, "user")
       ELSE UNCHANGED engineVars
    /\ UNCHANGED <<now, relayPc, hasSilenceHandler, silenceTimer, silenceRetryThreshold,
                   messageCallback, silenceOut>>

\* The socket handler hands over inbound messages once it has constructed the
\* orchestrator and called setup().
HandleMessage(type) ==
    /\ relayPc # "none"
    /\ IF type = "prompt"
       THEN \E t \in Turns : FreshTurn(t) /\ HandleMessageOp(type, t)
       ELSE HandleMessageOp(type, 1)
    /\ lastOp' = IF type = "info" THEN "other" ELSE "activity"
    /\ hist' = IF type # "info" /\ silenceTimer = "running"
               THEN [hist EXCEPT !.activity = TRUE, !.lastActivity = now,
                                 !.outAtActivity = Len(silenceOut)]
               ELSE hist
    /\ SilenceFrame

\* ConversationRelayService.cleanup()
CleanupOp ==
    /\ IF CleanupGuard(hasSilenceHandler)
       THEN IF hasSilenceHandler
            THEN SilenceCleanupOp /\ hasSilenceHandler' = FALSE /\ UNCHANGED errors
            ELSE \* TypeError: cannot read 'cleanup' of null
                 /\ errors' = errors \cup {"cleanup"}
                 /\ UNCHANGED <<silenceTimer, messageCallback, hasSilenceHandler>>
       ELSE UNCHANGED <<silenceTimer, messageCallback, hasSilenceHandler, errors>>
    /\ UNCHANGED <<now, relayPc, lastMessageTime, silenceRetryThreshold, silenceRetryCount,
                   silenceOut>>

Cleanup ==
    /\ CleanupOp
    /\ lastOp' = IF lastOp \in {"cleanup", "cleanupAgain"} THEN "cleanupAgain" ELSE "cleanup"
    /\ UNCHANGED <<engineVars, hist>>
    /\ UNCHANGED socketVarsButErrors

\* SilenceHandler.cleanup() called on the monitor itself.
SilenceCleanup ==
    /\ SilenceCleanupOp
    /\ lastOp' = IF lastOp \in {"silenceCleanup", "silenceCleanupAgain"}
                 THEN "silenceCleanupAgain" ELSE "silenceCleanup"
    /\ UNCHANGED <<now, relayPc, hasSilenceHandler, lastMessageTime, silenceRetryThreshold,
                   silenceRetryCount, silenceOut, engineVars, hist>>
    /\ SilenceFrame

NextSilence ==
    \/ Tick
    \/ RelaySetup
    \/ \E ok \in BOOLEAN : RelaySetupResumes(ok)
    \/ \E type \in MessageTypes : HandleMessage(type)
    \/ Cleanup
    \/ SilenceCleanup

InitOfSilence == Init /\ engineKind = "streaming" /\ serverVersion = "v2"

SpecSilence == InitOfSilence /\ [][NextSilence]_vars

\* The same program started with another retry ceiling in its environment,
\* followed long enough for the ceiling to be reached and a further period of
\* silence to pass.  The greeting of setup() arrives within the second it was
\* asked for, and nothing runs once the process has ended.
RetryCeilings == 1..MaxCeiling
CeilingTime == SILENCE_SECONDS_THRESHOLD * MaxCeiling + 1
ProcessAlive == silenceTimer # "crashed"
CeilingMessageTypes == {"info", "dtmf"}

NextCeiling ==
    \/ ProcessAlive /\ relayPc # "awaiting" /\ TickUntil(CeilingTime)
    \/ ProcessAlive /\ RelaySetup
    \/ ProcessAlive /\ \E ok \in BOOLEAN : RelaySetupResumes(ok)
    \/ ProcessAlive /\ \E type \in CeilingMessageTypes : HandleMessage(type)
    \/ ProcessAlive /\ Cleanup

InitOfCeiling ==
    /\ InitEngine /\ InitMonitor /\ InitSocket /\ InitHist
    /\ silenceRetryThreshold \in RetryCeilings
    /\ engineKind = "streaming" /\ serverVersion = "v2"

SpecCeiling == InitOfCeiling /\ [][NextCeiling]_vars

(***************************************************************************)
(* The orchestrator with its engine and its monitor: inbound events arrive *)
(* while turns of the streaming engine are in flight and the clock runs.   *)
(***************************************************************************)
RelayTime == SILENCE_SECONDS_THRESHOLD + 2
RelayReplies == {"text", "endcall"}

\* handleMessage(message) for an inbound event of the given type; the caller
\* speaks again once the previous turn has ended.
Inbound(type) ==
    /\ relayPc # "none"
    /\ IF StartsTurn(type)
       THEN ~TurnInFlight /\ \E t \in Turns : FreshTurn(t) /\ HandleMessageOp(type, t)
       ELSE HandleMessageOp(type, 1)
    /\ lastOp' = type
    /\ UNCHANGED hist
    /\ SilenceFrame

NextRelay ==
    \/ RelaySetup
    \/ \E ok \in BOOLEAN : RelaySetupResumes(ok)
    \/ \E type \in MessageTypes : Inbound(type)
    \/ TickUntil(RelayTime)
    \/ \E t \in Turns, reply \in RelayReplies : StreamOpened(t, reply)
    \/ \E t \in Turns : StreamChunk(t)
    \/ \E t \in Turns, fetchOk \in BOOLEAN : ToolReturns(t, fetchOk, "text")
    \/ \E t \in Turns : StreamEnd(t)
    \/ Cleanup

SpecRelay == InitOfSilence /\ [][NextRelay]_vars

(***************************************************************************)
(* The socket handler of app.ws('/conversation-relay'), the Session        *)
(* Registry (customerDataMap), POST /outboundCall and the Ticketing Bridge *)
(* (flexService).  One socket and one outbound-call request are modelled;  *)
(* the engine answers with plain text.                                     *)
(*                                                                         *)
(* ConversationRelayService.incomingMessage and the forwarding of the      *)
(* engine's 'llm.response' events as 'conversationRelay.response' are      *)
(* called by the socket handler but are not part of the sources; they are  *)
(* modelled from the specification: incomingMessage publishes a prompt's   *)
(* text as 'conversationRelay.prompt' and then calls handleMessage, and    *)
(* every 'llm.response' is forwarded synchronously to the subscribers.     *)
(***************************************************************************)
\* customerDataMap.get(customerReference)
RegistryGetOrDefault(map, ref) == ref
RegistryGet(map, ref) == IF map[ref].present THEN ref ELSE "undefined"

\* sessionCustomerData.taskAttributes is defined (it is set with .reservation).
HasTaskAttributes(scd) == scd \in Tokens /\ customerDataMap[scd].reservation

\* sessionCustomerData?.flexInteraction?.sid &&
\* sessionCustomerData?.taskAttributes?.flexInteractionChannelSid
HasTicketData(scd) ==
    scd \in Tokens /\ customerDataMap[scd].flexInteraction /\ customerDataMap[scd].reservation

\* The 100 ms timer of the setup branch fires whatever the entry holds by then.
SetupWaitsForReservation(reservation) == reservation
SetupWaitOver(reservation) == TRUE

NotFoundMessage == [type |-> "text", token |-> "Customer data not found", last |-> TRUE]
LogEntry(author, u) == [author |-> author, turn |-> u]

\* The socket still delivers messages: it has emitted neither 'close' nor 'error'.
SocketOpen == wsEvents = <<>> /\ "message" \in wsListeners

\* ---- POST /outboundCall and the reservationAccepted event
OutboundCall ==
    /\ outboundPc = "idle"
    /\ customerDataMap' = [customerDataMap EXCEPT !["AC123"] =
                              [present |-> TRUE, flexInteraction |-> FALSE,
                               reservation |-> FALSE]]
    /\ outboundPc' = "creating"
    /\ UNCHANGED <<serverVersion, callSessions, flexListener, flexAccepted, sessionCustomerData,
                   sessionConversationRelay, setupPc, promptPcs, wsListeners, wsEvents,
                   wsOut, wsClosedByServer, flexLog, closeInteractionCalls, errors>>
    /\ UNCHANGED <<engineVars, silenceVars, lastOp, hist>>

\* FlexService.createInteraction: a failure is caught and answered with
\* {interaction: null}.
CreateInteraction(ok) == IF ok THEN "interaction" ELSE "null"

\* flexInteraction.interaction.sid, read for the listener's event name:
\* a TypeError when the interaction is null.
InteractionSidReadableAlways(interaction) == TRUE
InteractionSidReadable(interaction) == interaction # "null"

\* createInteraction settles: the interaction is stored and the acceptance
\* listener registered, or the request fails (the handler's catch answers 500).
InteractionCreated(ok) ==
    /\ outboundPc = "creating"
    /\ flexAccepted => ok
    /\ IF InteractionSidReadable(CreateInteraction(ok))
       THEN /\ customerDataMap' = [customerDataMap EXCEPT !["AC123"].flexInteraction =
                                                          CreateInteraction(ok) # "null"]
            /\ flexListener' = TRUE
            /\ outboundPc' = "dialing"
       ELSE /\ outboundPc' = "failed"
            /\ UNCHANGED <<customerDataMap, flexListener>>
    /\ UNCHANGED <<serverVersion, callSessions, flexAccepted, sessionCustomerData,
                   sessionConversationRelay, setupPc, promptPcs, wsListeners, wsEvents,
                   wsOut, wsClosedByServer, flexLog, closeInteractionCalls, errors>>
    /\ UNCHANGED <<engineVars, silenceVars, lastOp, hist>>

\* makeOutboundCall settles and the request is answered.
CallPlaced ==
    /\ outboundPc = "dialing"
    /\ outboundPc' = "done"
    /\ UNCHANGED <<serverVersion, callSessions, customerDataMap, flexListener, flexAccepted,
                   sessionCustomerData, sessionConversationRelay, setupPc, promptPcs,
                   wsListeners, wsEvents, wsOut, wsClosedByServer, flexLog,
                   closeInteractionCalls, errors>>
    /\ UNCHANGED <<engineVars, silenceVars, lastOp, hist>>

\* The Ticketing Bridge accepts the reservation (POST /assignmentCallback,
\* acceptTask) and emits reservationAccepted.<sid>; the listener, if registered,
\* stores reservation and taskAttributes.  The ticket exists from the moment
\* the bridge has created it, which is before createInteraction has returned
\* to the outbound-call request.
ReservationAccepted ==
    /\ outboundPc \in {"creating", "dialing", "done"}
    /\ ~flexAccepted
    /\ flexAccepted' = TRUE
    /\ customerDataMap' = IF flexListener
                          THEN [customerDataMap EXCEPT !["AC123"].reservation = TRUE]
                          ELSE customerDataMap
    /\ UNCHANGED <<serverVersion, callSessions, outboundPc, flexListener, sessionCustomerData,
                   sessionConversationRelay, setupPc, promptPcs, wsListeners, wsEvents,
                   wsOut, wsClosedByServer, flexLog, closeInteractionCalls, errors>>
    /\ UNCHANGED <<engineVars, silenceVars, lastOp, hist>>

\* ---- ws.on('message'): the setup branch
\* What the branch does with the orchestrator it has created, in order, with
\* no await in between: server.js registers the response listener and then
\* calls setup(); part_003 calls setup() and then registers the listeners.
SetupBlockWithoutListener(version) == <<"setup">>
SetupBlock(version) ==
    IF version = "v1" THEN <<"listen", "setup">> ELSE <<"setup", "listen">>

\* The orchestrator once the block has run: with or without a subscriber of
\* 'conversationRelay.response'.
RelayAfter(block) ==
    IF \E k \in 1..Len(block) : block[k] = "listen" THEN "listening" ELSE "created"

\* new LlmService, new ConversationRelayService, the listeners and setup():
\* setup() runs up to its await and emits nothing before it.
CreateRelayOp ==
    /\ sessionConversationRelay' = RelayAfter(SetupBlock(serverVersion))
    /\ setupPc' = "done"
    /\ RelaySetupOp

WsSetup(token) ==
    /\ SocketOpen
    /\ setupPc = "idle"
    /\ hist.setups < MaxSetups
    /\ LET scd == RegistryGet(customerDataMap, token)
       IN /\ sessionCustomerData' = scd
          /\ IF scd = "undefined"
             THEN /\ wsOut' = Append(wsOut, NotFoundMessage)
                  /\ hist' = [hist EXCEPT !.missed = TRUE, !.setups = @ + 1]
                  /\ UNCHANGED <<sessionConversationRelay, setupPc, engineVars, silenceVars>>
             ELSE /\ UNCHANGED wsOut
                  /\ IF ~customerDataMap[scd].reservation
                     THEN /\ setupPc' = "waiting"
                          /\ hist' = [hist EXCEPT
                                        !.lookupOk = @ \/ customerDataMap[token].present,
                                        !.setups = @ + 1]
                          /\ UNCHANGED <<sessionConversationRelay, engineVars, silenceVars>>
                     ELSE /\ CreateRelayOp
                          /\ hist' = [hist EXCEPT
                                        !.lookupOk = @ \/ customerDataMap[token].present,
                                        !.setups = @ + 1]
    /\ UNCHANGED <<serverVersion, callSessions, customerDataMap, outboundPc, flexListener, flexAccepted,
                   promptPcs, wsListeners, wsEvents, wsClosedByServer, flexLog,
                   closeInteractionCalls, errors, lastOp>>

\* The setup branch resumes after its wait.
WsSetupResumes ==
    /\ setupPc = "waiting"
    /\ SetupWaitOver(customerDataMap[sessionCustomerData].reservation)
    /\ CreateRelayOp
    /\ hist' = [hist EXCEPT
                  !.degraded = ~customerDataMap[sessionCustomerData].reservation]
    /\ UNCHANGED <<serverVersion, callSessions, customerDataMap, outboundPc, flexListener, flexAccepted,
                   sessionCustomerData, promptPcs, wsListeners, wsEvents, wsOut,
                   wsClosedByServer, flexLog, closeInteractionCalls, errors, lastOp>>

\* ---- ws.on('message'): every other message
\* What the handler does with a prompt message, in order; "await" suspends it
\* until the pending createConversationMessage settles.  In part_003 the text is
\* written by the 'conversationRelay.prompt' listener during the dispatch.
PromptHandlerDispatchFirst(version) ==
    IF version = "v1" THEN <<"dispatch", "await", "write">> ELSE <<"dispatch">>
PromptHandler(version) ==
    IF version = "v1" THEN <<"write", "await", "dispatch">> ELSE <<"dispatch">>

\* sessionConversationRelay.incomingMessage(message): a TypeError while the
\* session has no orchestrator.
IncomingMessageThrowsNever(relay) == FALSE
IncomingMessageThrows(relay) == relay = "null"

RECURSIVE RunPrompt(_, _, _)
\* Runs the handler of prompt u from step k to its next suspension, its end or
\* its exception (caught and logged by the handler's try/catch).
\* st: the transcript log, the exceptions, whether handleMessage was reached,
\* whether the conversationSid could be read, and where the handler stands.
RunPrompt(u, k, st) ==
    LET steps == PromptHandler(serverVersion)
    IN IF k > Len(steps) THEN [st EXCEPT !.pc = "done"]
       ELSE CASE steps[k] = "await" -> [st EXCEPT !.pc = "suspended", !.step = k + 1]
              [] steps[k] = "write" ->
                    IF HasTaskAttributes(sessionCustomerData)
                    THEN RunPrompt(u, k + 1,
                             [st EXCEPT !.sid = TRUE,
                                        !.flexLog = Append(@, LogEntry("Pharmacy", u))])
                    ELSE [st EXCEPT !.pc = "failed",
                                    !.errors = @ \cup {"messageHandler"}]
              [] steps[k] = "dispatch" ->
                    IF IncomingMessageThrows(sessionConversationRelay)
                    THEN [st EXCEPT !.pc = "failed",
                                    !.errors = @ \cup {"messageHandler"}]
                    ELSE RunPrompt(u, k + 1,
                             IF serverVersion = "v2"
                             THEN IF HasTaskAttributes(sessionCustomerData)
                                  THEN [st EXCEPT !.dispatched = TRUE, !.sid = TRUE,
                                           !.flexLog = Append(@, LogEntry("Pharmacy", u))]
                                  ELSE [st EXCEPT !.dispatched = TRUE,
                                           !.errors = @ \cup {"promptListener"}]
                             ELSE [st EXCEPT !.dispatched = TRUE])

PromptState(u) ==
    [flexLog |-> flexLog, errors |-> errors, dispatched |-> FALSE,
     sid |-> promptPcs[u].sid, pc |-> "none", step |-> 0]

\* Commits a run of prompt u's handler; handleMessage runs if it was reached.
PromptCommit(u, r) ==
    /\ flexLog' = r.flexLog
    /\ errors' = r.errors
    /\ promptPcs' = [promptPcs EXCEPT ![u] = [pc |-> r.pc, step |-> r.step, sid |-> r.sid]]
    /\ IF r.dispatched
       THEN HandleMessageOp("prompt", u) /\ UNCHANGED hist
       ELSE UNCHANGED <<engineVars, silenceVars, hist>>

PromptFrame ==
    UNCHANGED <<serverVersion, callSessions, customerDataMap, outboundPc, flexListener, flexAccepted,
                sessionCustomerData, sessionConversationRelay, setupPc, wsListeners,
                wsEvents, wsOut, wsClosedByServer, closeInteractionCalls, lastOp>>

\* A prompt message arrives on the socket.
WsPrompt(u) ==
    /\ SocketOpen
    /\ promptPcs[u].pc = "none"
    /\ \A v \in 1..(u - 1) : promptPcs[v].pc # "none"
    /\ PromptCommit(u, RunPrompt(u, 1, PromptState(u)))
    /\ PromptFrame

\* The createConversationMessage a prompt handler awaits settles; a rejection
\* is caught by the handler's try/catch.
WsPromptResumes(u, ok) ==
    /\ promptPcs[u].pc = "suspended"
    /\ IF ok
       THEN PromptCommit(u, RunPrompt(u, promptPcs[u].step, PromptState(u)))
       ELSE /\ promptPcs' = [promptPcs EXCEPT ![u].pc = "failed", ![u].step = 0]
            /\ errors' = errors \cup {"messageHandler"}
            /\ UNCHANGED <<flexLog, engineVars, silenceVars, hist>>
    /\ PromptFrame

\* An info, interrupt or dtmf message arrives on the socket.
WsOther(type) ==
    /\ SocketOpen
    /\ IF IncomingMessageThrows(sessionConversationRelay)
       THEN /\ errors' = errors \cup {"messageHandler"}
            /\ UNCHANGED <<engineVars, silenceVars, hist>>
       ELSE /\ HandleMessageOp(type, 1)
            /\ UNCHANGED <<errors, hist>>
    /\ UNCHANGED <<socketVarsButErrors, lastOp>>

\* ---- the listeners the setup branch registers on the orchestrator
\* A listener that posts every fragment it is given.
ResponseListenerPostsEvery(e, st) ==
    IF HasTaskAttributes(sessionCustomerData)
    THEN [st EXCEPT !.wsOut = Append(@, e),
                    !.flexLog = Append(@, LogEntry("Chemtrails", e.turn))]
    ELSE [st EXCEPT !.errors = @ \cup {"responseListener"}]

\* The 'conversationRelay.response' listener, applied to one forwarded event.
ResponseListener(e, st) ==
    LET posted == IF HasTaskAttributes(sessionCustomerData)
                  THEN [st EXCEPT !.flexLog = Append(@, LogEntry("Chemtrails", e.turn))]
                  ELSE [st EXCEPT !.errors = @ \cup {"responseListener"}]
    IN IF serverVersion = "v1"
       THEN LET sent == [st EXCEPT !.wsOut = Append(@, e)]
            IN IF e.last
               THEN IF HasTaskAttributes(sessionCustomerData)
                    THEN [sent EXCEPT !.flexLog = Append(@, LogEntry("Chemtrails", e.turn))]
                    ELSE [sent EXCEPT !.errors = @ \cup {"responseListener"}]
               ELSE sent
       ELSE IF e.last
            THEN IF ~e.empty THEN posted ELSE st
            ELSE [st EXCEPT !.wsOut = Append(@, e)]

RECURSIVE DeliverAll(_, _)
\* The engine's events, forwarded one by one; 'llm.error' has no subscriber.
DeliverAll(events, st) ==
    IF events = <<>> THEN st
    ELSE DeliverAll(Tail(events),
                    IF Head(events).type = "llm.error" THEN st
                    ELSE ResponseListener(Head(events), st))

\* The events an engine step has emitted reach the socket-side listener.
DeliverOp ==
    LET new == IF sessionConversationRelay = "listening"
               THEN SubSeq(llmOut', Len(llmOut) + 1, Len(llmOut'))
               ELSE <<>>
        r == DeliverAll(new, [wsOut |-> wsOut, flexLog |-> flexLog, errors |-> errors])
    IN /\ wsOut' = r.wsOut
       /\ flexLog' = r.flexLog
       /\ errors' = r.errors

DeliverFrame ==
    UNCHANGED <<serverVersion, callSessions, customerDataMap, outboundPc, flexListener, flexAccepted,
                sessionCustomerData, sessionConversationRelay, setupPc, promptPcs,
                wsListeners, wsEvents, wsClosedByServer, closeInteractionCalls, lastOp>>

\* The completion of the setup prompt settles and setup() resumes.
RelayGreets(ok) ==
    /\ RelaySetupResumesOp(ok)
    /\ DeliverOp
    /\ DeliverFrame

\* A turn of the streaming engine answered with plain text, taken as one step:
\* the stream delivers n content fragments (each emitted with last=false) and
\* ends (the assistant entry is appended and the final fragment emitted).
TurnAnswersOp(t, n) ==
    /\ engineKind = "streaming"
    /\ turns[t].pc = "create"
    /\ promptContext' = Append(promptContext, Msg("assistant", t))
    /\ llmOut' = llmOut \o [k \in 1..n |-> TextEvent(t, FALSE, FALSE)]
                        \o <<TextEvent(t, TRUE, FALSE)>>
    /\ turns' = [turns EXCEPT ![t] =
                    Returned([@ EXCEPT !.reply = "text", !.fullResponse = n], "ok")]
    /\ UNCHANGED <<engineKind, toolExecs>>

RelayAnswers(t, n) ==
    /\ TurnAnswersOp(t, n)
    /\ DeliverOp
    /\ UNCHANGED <<silenceVars, hist>>
    /\ DeliverFrame

\* ---- ws.on('close') and ws.on('error')
\* The socket emits 'error' and then 'close', or 'close' alone.
WsEnds(kind) ==
    /\ kind \notin {wsEvents[i] : i \in 1..Len(wsEvents)}
    /\ kind = "error" => wsEvents = <<>>
    /\ wsEvents' = Append(wsEvents, kind)
    /\ IF kind \in wsListeners
       THEN /\ IF sessionConversationRelay # "null"
               THEN CleanupOp
               ELSE UNCHANGED <<silenceVars, errors>>
            /\ IF serverVersion = "v2"
               THEN /\ wsListeners' = {}
                    /\ flexListener' =
                          IF sessionCustomerData \in Tokens
                             /\ customerDataMap[sessionCustomerData].flexInteraction
                          THEN FALSE ELSE flexListener
               ELSE UNCHANGED <<wsListeners, flexListener>>
            /\ closeInteractionCalls' =
                  IF HasTicketData(sessionCustomerData)
                  THEN closeInteractionCalls + 1 ELSE closeInteractionCalls
       ELSE UNCHANGED <<silenceVars, errors, wsListeners, flexListener,
                        closeInteractionCalls>>
    /\ UNCHANGED <<serverVersion, callSessions, customerDataMap, outboundPc, flexAccepted,
                   sessionCustomerData, sessionConversationRelay, setupPc, promptPcs,
                   wsOut, wsClosedByServer, flexLog, engineVars, lastOp>>
    /\ hist' = [hist EXCEPT !.endedWithTicket =
                     @ \/ (kind \in wsListeners /\ HasTicketData(sessionCustomerData))]

NextSocket ==
    \/ OutboundCall
    \/ \E ok \in BOOLEAN : InteractionCreated(ok)
    \/ CallPlaced
    \/ ReservationAccepted
    \/ \E token \in Tokens : WsSetup(token)
    \/ WsSetupResumes
    \/ \E u \in Turns : WsPrompt(u)
    \/ \E u \in Turns, ok \in BOOLEAN : WsPromptResumes(u, ok)
    \/ \E type \in MessageTypes \ {"prompt"} : WsOther(type)
    \/ \E ok \in BOOLEAN : RelayGreets(ok)
    \/ \E t \in Turns : RelayAnswers(t, 1)
    \/ \E kind \in {"close", "error"} : WsEnds(kind)

InitOfSocket == Init /\ engineKind = "streaming"

SpecSocket == InitOfSocket /\ [][NextSocket]_vars

\* ---- a further setup message on a socket whose setup branch has completed
\* The branch runs as for the first one: a new LlmService and a new
\* ConversationRelayService replace the session's, and setup() is called on the
\* new orchestrator.  The replaced orchestrator is not cleaned up and its
\* monitor keeps its interval; the model follows the session's current
\* orchestrator.
ReplaceRelayOp ==
    /\ sessionConversationRelay' = RelayAfter(SetupBlock(serverVersion))
    /\ relayPc' = "awaiting"
    /\ promptContext' = <<Msg("system", 0), Msg("system", 0)>>
    /\ hasSilenceHandler' = FALSE
    /\ UNCHANGED <<engineKind, turns, llmOut, toolExecs, now, lastMessageTime, silenceTimer,
                   silenceRetryThreshold, silenceRetryCount, messageCallback, silenceOut>>

\* The message arrives between turns, for an unknown reference or for one
\* whose reservation is in the registry.
WsSetupAgain(token) ==
    /\ SocketOpen
    /\ setupPc = "done"
    /\ relayPc \in {"done", "threw"}
    /\ ~TurnInFlight
    /\ hist.setups < MaxSetups
    /\ LET scd == RegistryGet(customerDataMap, token)
       IN /\ scd # "undefined" => customerDataMap[scd].reservation
          /\ sessionCustomerData' = scd
          /\ IF scd = "undefined"
             THEN /\ wsOut' = Append(wsOut, NotFoundMessage)
                  /\ hist' = [hist EXCEPT !.missed = TRUE, !.setups = @ + 1]
                  /\ UNCHANGED <<sessionConversationRelay, engineVars, silenceVars>>
             ELSE /\ UNCHANGED wsOut
                  /\ ReplaceRelayOp
                  /\ hist' = [hist EXCEPT !.setups = @ + 1]
    /\ UNCHANGED <<serverVersion, callSessions, customerDataMap, outboundPc, flexListener, flexAccepted,
                   setupPc, promptPcs, wsListeners, wsEvents, wsClosedByServer, flexLog,
                   closeInteractionCalls, errors, lastOp>>

NextResetup ==
    \/ OutboundCall
    \/ \E ok \in BOOLEAN : InteractionCreated(ok)
    \/ CallPlaced
    \/ ReservationAccepted
    \/ \E token \in Tokens : WsSetup(token)
    \/ WsSetupResumes
    \/ \E token \in Tokens : WsSetupAgain(token)
    \/ \E u \in Turns : WsPrompt(u)
    \/ \E u \in Turns, ok \in BOOLEAN : WsPromptResumes(u, ok)
    \/ \E ok \in BOOLEAN : RelayGreets(ok)
    \/ \E t \in Turns : RelayAnswers(t, 1)

SpecResetup == InitOfSocket /\ [][NextResetup]_vars

\* ---- a socket that stays open, with replies of one or two fragments
NextStream ==
    \/ OutboundCall
    \/ \E ok \in BOOLEAN : InteractionCreated(ok)
    \/ CallPlaced
    \/ ReservationAccepted
    \/ \E token \in Tokens : WsSetup(token)
    \/ WsSetupResumes
    \/ \E u \in Turns : WsPrompt(u)
    \/ \E u \in Turns, ok \in BOOLEAN : WsPromptResumes(u, ok)
    \/ \E ok \in BOOLEAN : RelayGreets(ok)
    \/ \E t \in Turns, n \in 1..2 : RelayAnswers(t, n)

SpecStream == InitOfSocket /\ [][NextStream]_vars

(***************************************************************************)
(* Two calls at once.  Each socket has its own closure variables           *)
(* (sessionCustomerData, sessionConversationRelay), its own LlmService     *)
(* with its own promptContext array and its own SilenceHandler; the        *)
(* registry and the Ticketing Bridge are shared and keyed by the call's    *)
(* customerReference and interaction sid.  Each step is one call's;        *)
(* lastOp names the call.                                                  *)
(***************************************************************************)
\* The array an LlmService instance appends to: the constructor builds a new
\* one for every instance.
TranscriptOfShared(c) == 1
TranscriptOf(c) == c

SessionOf(c) == callSessions.session[c]
ContextOf(c) == callSessions.arrays[TranscriptOf(c)]
LastRole(c) == IF ContextOf(c) = <<>> THEN "none" ELSE ContextOf(c)[Len(ContextOf(c))].role
UserEntries(c) == {k \in 1..Len(ContextOf(c)) : ContextOf(c)[k].role = "user"}

Push(c, msg) == [callSessions.arrays EXCEPT ![TranscriptOf(c)] = Append(@, msg)]

CallFrame ==
    /\ UNCHANGED <<engineVars, silenceVars, hist>>
    /\ UNCHANGED <<serverVersion, outboundPc, flexListener, flexAccepted,
                   sessionCustomerData, sessionConversationRelay, setupPc, promptPcs,
                   wsListeners, wsEvents, wsOut, wsClosedByServer, flexLog,
                   closeInteractionCalls, errors>>

\* POST /outboundCall for the call's customerReference, up to the stored
\* interaction.
CallRegistered(c) ==
    /\ ~customerDataMap[CallToken(c)].present
    /\ customerDataMap' = [customerDataMap EXCEPT ![CallToken(c)] =
                              [present |-> TRUE, flexInteraction |-> TRUE,
                               reservation |-> FALSE]]
    /\ lastOp' = c
    /\ UNCHANGED callSessions
    /\ CallFrame

\* The reservationAccepted.<sid> listener of the call's request.
CallEnriched(c) ==
    /\ customerDataMap[CallToken(c)].present
    /\ ~customerDataMap[CallToken(c)].reservation
    /\ customerDataMap' = [customerDataMap EXCEPT ![CallToken(c)].reservation = TRUE]
    /\ lastOp' = c
    /\ UNCHANGED callSessions
    /\ CallFrame

\* The setup message of the call's socket: the lookup, and on a hit the new
\* LlmService and orchestrator and setup() up to its await.
CallSetup(c) ==
    /\ SessionOf(c).scd = "null"
    /\ LET scd == RegistryGet(customerDataMap, CallToken(c))
       IN callSessions' =
            IF scd = "undefined"
            THEN [callSessions EXCEPT !.session[c].scd = scd]
            ELSE [callSessions EXCEPT
                    !.session[c].scd = scd,
                    !.session[c].relay = RelayAfter(SetupBlock(serverVersion)),
                    !.arrays[TranscriptOf(c)] = <<Msg("system", 0), Msg("system", c)>>]
    /\ lastOp' = c
    /\ UNCHANGED customerDataMap
    /\ CallFrame

\* The completion of the call's setup prompt: the greeting is appended and
\* the call's monitor started.
CallGreeted(c) ==
    /\ SessionOf(c).relay # "null"
    /\ SessionOf(c).silenceTimer = "null"
    /\ LastRole(c) = "system"
    /\ callSessions' = [callSessions EXCEPT
                          !.arrays = Push(c, Msg("assistant", c)),
                          !.session[c].silenceTimer = "running",
                          !.session[c].silenceRetryCount = 0]
    /\ lastOp' = c
    /\ UNCHANGED customerDataMap
    /\ CallFrame

\* A prompt on the call's socket: resetTimer() and the utterance appended.
CallPrompt(c) ==
    /\ SessionOf(c).silenceTimer # "null"
    /\ LastRole(c) = "assistant"
    /\ Cardinality(UserEntries(c)) < MaxTurns
    /\ callSessions' = [callSessions EXCEPT
                          !.arrays = Push(c, Msg("user", c)),
                          !.session[c].silenceRetryCount = 0]
    /\ lastOp' = c
    /\ UNCHANGED customerDataMap
    /\ CallFrame

\* The call's engine answers: the reply is appended.
CallAnswered(c) ==
    /\ SessionOf(c).relay # "null"
    /\ LastRole(c) = "user"
    /\ callSessions' = [callSessions EXCEPT !.arrays = Push(c, Msg("assistant", c))]
    /\ lastOp' = c
    /\ UNCHANGED customerDataMap
    /\ CallFrame

\* The interval of the call's monitor finds the threshold reached.
CallSilent(c) ==
    /\ SessionOf(c).silenceTimer = "running"
    /\ LET count == SessionOf(c).silenceRetryCount + 1
       IN callSessions' = [callSessions EXCEPT
                             !.session[c].silenceRetryCount = count,
                             !.session[c].silenceTimer =
                                 IF CeilingReached(count, silenceRetryThreshold)
                                 THEN "cleared" ELSE "running"]
    /\ lastOp' = c
    /\ UNCHANGED customerDataMap
    /\ CallFrame

\* An interrupt or dtmf event on the call's socket: resetTimer().
CallActivity(c) ==
    /\ SessionOf(c).silenceTimer # "null"
    /\ SessionOf(c).silenceRetryCount > 0
    /\ callSessions' = [callSessions EXCEPT !.session[c].silenceRetryCount = 0]
    /\ lastOp' = c
    /\ UNCHANGED customerDataMap
    /\ CallFrame

NextCalls ==
    \/ \E c \in Calls : CallRegistered(c)
    \/ \E c \in Calls : CallEnriched(c)
    \/ \E c \in Calls : CallSetup(c)
    \/ \E c \in Calls : CallGreeted(c)
    \/ \E c \in Calls : CallPrompt(c)
    \/ \E c \in Calls : CallAnswered(c)
    \/ \E c \in Calls : CallSilent(c)
    \/ \E c \in Calls : CallActivity(c)

SpecCalls == InitOfSilence /\ [][NextCalls]_vars

\* The 100 ms timer of a waiting setup branch does fire.
SpecSocketFair == SpecSocket /\ WF_vars(WsSetupResumes)

(***************************************************************************)
(* Properties of the engine's transcript.                                  *)
(***************************************************************************)
\* C2: in every reachable state, each tool-role entry of the transcript is
\* immediately preceded by an assistant-role entry that carries its tool-call
\* identifier (several tool calls, failed tool calls and overlapping turns
\* included).
C2_ToolEntryImmediatelyPaired ==
    \A i \in 1..Len(promptContext) :
        promptContext[i].role = "tool" =>
            /\ i > 1
            /\ promptContext[i - 1].role = "assistant"
            /\ promptContext[i].id \in promptContext[i - 1].calls

ExpectedOut(s, t) ==
    LET periods == (t - s) \div SILENCE_SECONDS_THRESHOLD
        n == IF periods < SILENCE_RETRY_THRESHOLD THEN periods ELSE SILENCE_RETRY_THRESHOLD
    IN [k \in 1..n |->
            Delivered(IF k < SILENCE_RETRY_THRESHOLD THEN CreateSilenceBreakerMessage(k)
                      ELSE CreateEndCallMessage,
                      s + k * SILENCE_SECONDS_THRESHOLD)]

\* C3: with threshold T and ceiling 3, while the monitor has been started and
\* no activity has been reported, what it has emitted is exactly reminder #1 at
\* T, reminder #2 at 2T and the end message (reasonCode "unresponsive") at 3T
\* after the start, as far as time has got, and nothing else.
C3_SilenceSequence ==
    (hist.start >= 0 /\ ~hist.activity /\ messageCallback) =>
        /\ silenceOut = ExpectedOut(hist.start, now)
        /\ \A i \in 1..Len(silenceOut) :
               /\ i = 1 => silenceOut[i].msg.token = "Still there?"
               /\ i = 2 => silenceOut[i].msg.token = "Just checking you are still there?"
               /\ i = 3 => /\ silenceOut[i].msg.type = "end"
                           /\ silenceOut[i].msg.reasonCode = "unresponsive"

\* The whole sequence has been emitted and a further second has passed.
C3_Witness ==
    /\ hist.start >= 0 /\ ~hist.activity /\ messageCallback
    /\ Len(silenceOut) = 3
    /\ silenceOut[3].msg.type = "end"
    /\ now > silenceOut[3].at

\* C4: right after a prompt, interrupt or dtmf event handled while the monitor
\* is running, the reminder count is zero and the baseline is the current time;
\* and what the monitor has emitted since the last such event is what a monitor
\* freshly started at that event would have emitted: nothing before a full
\* threshold has elapsed, then reminder #1, and so on.
C4_ActivityResets ==
    /\ (lastOp = "activity" /\ silenceTimer = "running") =>
           silenceRetryCount = 0 /\ lastMessageTime = now
    /\ (hist.activity /\ messageCallback) =>
           SubSeq(silenceOut, hist.outAtActivity + 1, Len(silenceOut))
               = ExpectedOut(hist.lastActivity, now)

\* A reminder had been emitted, then activity was reported, and a full
\* threshold later the escalation has started again with reminder #1.
C4_Witness ==
    /\ hist.activity /\ messageCallback
    /\ hist.outAtActivity >= 1
    /\ Len(silenceOut) = hist.outAtActivity + 1
    /\ silenceOut[Len(silenceOut)].msg.token = "Still there?"
    /\ silenceOut[Len(silenceOut)].at = hist.lastActivity + SILENCE_SECONDS_THRESHOLD

\* C5: a cleanup of the orchestrator that directly follows a cleanup of the
\* orchestrator, and a cleanup of the monitor that directly follows a cleanup
\* of the monitor, raises no exception, changes nothing of the orchestrator's,
\* the monitor's and the engine's state and emits nothing.
C5_SecondCleanupIsNoOp ==
    [][lastOp' \in {"cleanupAgain", "silenceCleanupAgain"}
        => /\ errors' = errors
           /\ UNCHANGED <<silenceVars, engineVars, wsOut, flexLog>>]_vars

\* The orchestrator was cleaned up while its monitor was running, and cleaned
\* up again without an exception.
C5_Witness ==
    /\ lastOp = "cleanupAgain"
    /\ relayPc = "done" /\ ~hasSilenceHandler /\ silenceTimer = "cleared"
    /\ errors = {}

(***************************************************************************)
(* Properties of the socket handler.                                       *)
(***************************************************************************)
\* C1: for every caller utterance, the transcript-log write of the utterance
\* is posted before the transcript-log write of the model's reply to it: no
\* write of the utterance follows the write of its reply, and whenever the
\* handler of the utterance could read the conversation identifier, the write
\* of the utterance precedes the write of the reply.
C1_UtteranceBeforeReply ==
    \A i \in 1..Len(flexLog) :
        (flexLog[i].author = "Chemtrails" /\ flexLog[i].turn \in Turns) =>
            LET u == flexLog[i].turn
            IN /\ \A j \in (i + 1)..Len(flexLog) : flexLog[j] # LogEntry("Pharmacy", u)
               /\ promptPcs[u].sid =>
                      \E j \in 1..(i - 1) : flexLog[j] = LogEntry("Pharmacy", u)

\* Two utterances were written, the reply to the second was written before
\* the reply to the first, each after its utterance.
C1_Witness ==
    /\ Len(flexLog) >= 4
    /\ \E i, j \in 1..Len(flexLog) :
           /\ i < j
           /\ flexLog[i] = LogEntry("Chemtrails", 2)
           /\ flexLog[j] = LogEntry("Chemtrails", 1)
    /\ \E i \in 1..Len(flexLog) : flexLog[i] = LogEntry("Pharmacy", 1)
    /\ \E i \in 1..Len(flexLog) : flexLog[i] = LogEntry("Pharmacy", 2)

\* C6: the ticket-close operation is invoked at most once for the socket, and
\* once if the ticket data was present when a 'close' or 'error' handler of the
\* socket ran, both events being delivered included; without ticket data it is not
\* invoked and the handlers raise nothing.
C6_TicketClosedExactlyOnce ==
    /\ closeInteractionCalls <= 1
    /\ hist.endedWithTicket => closeInteractionCalls >= 1
    /\ ~HasTicketData(sessionCustomerData) =>
           closeInteractionCalls = 0 /\ "cleanup" \notin errors

C9_ActiveOnlyAfterLookup ==
    (\/ sessionConversationRelay # "null"
     \/ setupPc # "idle"
     \/ relayPc # "none"
     \/ hasSilenceHandler
     \/ silenceTimer # "null"
     \/ Len(promptContext) > 1
     \/ llmOut # <<>>
     \/ \E t \in Turns : turns[t].pc # "idle") => hist.lookupOk

\* After a failed lookup, a later setup succeeded on the socket and a turn was
\* generated with the monitor running.
C9_Witness ==
    /\ hist.missed /\ hist.lookupOk
    /\ sessionConversationRelay # "null"
    /\ hasSilenceHandler
    /\ \E t \in Turns : turns[t].pc = "done"

\* C10: once a setup message has carried a correlation token that is not in the
\* registry, the not-found message has been sent on the socket, the server has
\* closed the socket, and the socket stays without a session.
C10_LookupMissIsTerminal ==
    hist.missed =>
        /\ \E i \in 1..Len(wsOut) : wsOut[i] = NotFoundMessage
        /\ wsClosedByServer
        /\ sessionConversationRelay = "null"

(***************************************************************************)
(* Properties of a turn of the engine.                                     *)
(***************************************************************************)
TerminalTools == {"end-call", "live-agent-handoff", "send-dtmf"}

\* C11: every turn that has completed (returned without throwing) has emitted
\* a fragment with last=true, and nothing of that turn was emitted after it:
\* with no tool call, a non-terminal tool call, a terminal tool call or a tool
\* error alike.
C11_FinalFragmentClosesTurn ==
    \A t \in Turns :
        (turns[t].pc = "done" /\ turns[t].result # "threw") =>
            \E i \in 1..Len(llmOut) :
                /\ llmOut[i].turn = t
                /\ llmOut[i].last
                /\ \A j \in (i + 1)..Len(llmOut) : llmOut[j].turn # t

\* C12: the streaming engine executes a tool only in a turn whose stream has
\* delivered finish_reason 'tool_calls' and whose accumulated argument
\* fragments, concatenated, parse as JSON; a turn whose arguments do not parse
\* executes no tool and has emitted an error event.
C12_ToolOnlyAfterFinishAndParse ==
    /\ [][(engineKind = "streaming" /\ toolExecs' # toolExecs) =>
              \E t \in Turns :
                  /\ turns[t].pc = "tool"
                  /\ StreamOf(t, turns[t].reply)[turns[t].pos].finish = "tool_calls"
                  /\ JsonParses(turns[t].rawArgs)
                  /\ toolExecs' = Append(toolExecs, [turn |-> t, name |-> turns[t].collName,
                                                     args |-> turns[t].accArgs])]_vars
    /\ [](engineKind = "streaming" =>
              \A t \in Turns :
                  (turns[t].pc = "done" /\ turns[t].reply \in {"badargs", "badtool"}) =>
                      /\ \A i \in 1..Len(toolExecs) : toolExecs[i].turn # t
                      /\ \E i \in 1..Len(llmOut) : llmOut[i] = ErrorEvent(t))

\* C13: a turn in which a terminal tool (end-call, live-agent-handoff or
\* send-dtmf) has been executed requests no further completion: it is never
\* waiting for, nor consuming, nor has it consumed, a follow-up or final reply.
C13_TerminalToolShortCircuits ==
    \A i \in 1..Len(toolExecs) :
        toolExecs[i].name \in TerminalTools =>
            LET t == toolExecs[i].turn
            IN /\ turns[t].pc \notin {"followupCreate", "followup", "nsFinal"}
               /\ turns[t].fReply = "none"

\* C14: a turn whose reply called end-call and which has completed has raised
\* an event of type end with reasonCode "end-call".
C14_EndCallRaisesEndEvent ==
    \A t \in Turns :
        (turns[t].pc = "done" /\ turns[t].reply = "endcall" /\ turns[t].result # "threw") =>
            \E i \in 1..Len(llmOut) :
                /\ llmOut[i].turn = t
                /\ llmOut[i].type = "end"
                /\ llmOut[i].reasonCode = "end-call"

\* The tool executions of turn t.
ExecsOf(t) == {i \in 1..Len(toolExecs) : toolExecs[i].turn = t}

\* C15: within one turn of the streaming engine at most one tool is executed
\* and at most two completions are requested (the initial one and one
\* follow-up); a tool call in the follow-up reply is not executed.
C15_OneToolTwoCompletions ==
    engineKind = "streaming" =>
        \A t \in Turns :
            /\ Cardinality(ExecsOf(t)) <= 1
            /\ turns[t].completions <= 2
            /\ turns[t].fReply = "tool" => Cardinality(ExecsOf(t)) = 1

\* A turn has ended whose follow-up reply asked for a tool again: one tool was
\* executed and two completions were requested.
C15_Witness ==
    /\ engineKind = "streaming"
    /\ \E t \in Turns :
           /\ turns[t].pc = "done"
           /\ turns[t].result = "ok"
           /\ turns[t].fReply = "tool"
           /\ turns[t].completions = 2
           /\ Cardinality(ExecsOf(t)) = 1
\* The envelope the Tool Executor is to return for a tool name.
ExpectedEnvelope(name, fetchOk) ==
    CASE name = "live-agent-handoff" -> [type |-> "end", reasonCode |-> "live-agent-handoff"]
      [] name = "send-dtmf" -> [type |-> "sendDigits", reasonCode |-> ""]
      [] name = "end-call" -> [type |-> "end", reasonCode |-> "end-call"]
      [] OTHER -> [type |-> IF fetchOk THEN "text" ELSE "error", reasonCode |-> ""]

\* C16: whenever executeToolCall is awaited with a validated name and parsed
\* arguments, the envelope it returns is the one its name determines:
\* live-agent-handoff gives end / "live-agent-handoff", send-dtmf gives
\* sendDigits, end-call gives end / "end-call", any other name gives text when
\* the endpoint answers and error when it fails.
C16_EnvelopeDeterminedByName ==
    engineKind = "streaming" =>
        \A t \in Turns :
            turns[t].pc = "tool" =>
                \A fetchOk \in BOOLEAN :
                    LET res == ExecuteToolCall(turns[t].collName, turns[t].accArgs, fetchOk)
                        exp == ExpectedEnvelope(turns[t].collName, fetchOk)
                    IN res.type = exp.type /\ res.reasonCode = exp.reasonCode

BusinessTool(name) == name # "" /\ name \notin TerminalTools

\* C17: a step of executeToolCall for a business tool never throws; when the
\* turn ends at that step it ends with the envelope of type error, which is
\* what a failed call of the endpoint gives.
C17_ExecutorNeverThrows ==
    /\ [][\A t \in Turns :
            (/\ engineKind = "streaming"
             /\ turns[t].pc = "tool"
             /\ BusinessTool(turns[t].collName)
             /\ turns'[t] # turns[t])
            => /\ turns'[t].result # "threw"
               /\ turns'[t].pc \in {"done", "followupCreate"}
               /\ turns'[t].pc = "done" => turns'[t].result = "error"]_vars
    /\ [](engineKind = "streaming" =>
            \A t \in Turns :
                (turns[t].pc = "tool" /\ BusinessTool(turns[t].collName)) =>
                    ExecuteToolCall(turns[t].collName, turns[t].accArgs, FALSE).type = "error")

\* A business tool was executed, its endpoint failed, and the turn returned
\* the error envelope.
C17_Witness ==
    /\ engineKind = "streaming"
    /\ \E t \in Turns :
           /\ turns[t].pc = "done"
           /\ turns[t].result = "error"
           /\ \E i \in ExecsOf(t) : BusinessTool(toolExecs[i].name)

\* C18: a turn of the streaming engine that met a turn-local failure (no tool
\* name, arguments that do not parse, a failed call of a business tool) has
\* returned without throwing and has emitted an event of type error.
C18_LocalFailureEmitsError ==
    engineKind = "streaming" =>
        \A t \in Turns :
            (turns[t].pc = "done" /\ turns[t].result = "error") =>
                \E i \in 1..Len(llmOut) : llmOut[i] = ErrorEvent(t)

\* C19: a turn of the streaming engine whose business tool failed goes on in
\* the same turn: the tool's entry is in the context and a follow-up completion
\* was requested.
C19_FailedToolFeedsFollowUp ==
    engineKind = "streaming" =>
        \A t \in Turns :
            (/\ turns[t].pc = "done"
             /\ turns[t].result = "error"
             /\ \E i \in ExecsOf(t) : BusinessTool(toolExecs[i].name))
            => /\ turns[t].completions = 2
               /\ \E k \in 1..Len(promptContext) :
                      promptContext[k].role = "tool" /\ promptContext[k].turn = t

(***************************************************************************)
(* Properties of the Silence Monitor under any retry ceiling.              *)
(***************************************************************************)
EndEmitted == \E i \in 1..Len(silenceOut) : silenceOut[i].msg.type = "end"

\* C20: whatever the retry ceiling (at least 1), the step that brings the
\* reminder count up to the ceiling hands the end message with reasonCode
\* "unresponsive" to the callback and clears the interval; once the end message
\* is out, nothing more is emitted, whatever activity is reported afterwards.
C20_EndOnceAtCeiling ==
    /\ [][(/\ silenceRetryCount' = silenceRetryCount + 1
           /\ silenceRetryCount' >= silenceRetryThreshold)
          => /\ silenceOut' = Append(silenceOut, Delivered(CreateEndCallMessage, now'))
             /\ CreateEndCallMessage.type = "end"
             /\ CreateEndCallMessage.reasonCode = "unresponsive"
             /\ silenceTimer' = "cleared"]_vars
    /\ [][EndEmitted => silenceOut' = silenceOut]_vars
    /\ [](Cardinality({i \in 1..Len(silenceOut) : silenceOut[i].msg.type = "end"}) <= 1)

\* The end message went out under a ceiling other than the default, activity
\* was reported after it, and a further silence period has passed since.
C20_Witness ==
    /\ silenceRetryThreshold # SILENCE_RETRY_THRESHOLD
    /\ Len(silenceOut) = silenceRetryThreshold
    /\ silenceOut[Len(silenceOut)].msg = CreateEndCallMessage
    /\ lastMessageTime > silenceOut[Len(silenceOut)].at
    /\ now - lastMessageTime >= SILENCE_SECONDS_THRESHOLD

(***************************************************************************)
(* Properties of the orchestrator's handling of inbound events.            *)
(***************************************************************************)
\* C21: handling an info event changes neither the monitor's reminder count
\* nor its baseline (lastMessageTime), starts no turn of the engine and
\* produces no output, from the engine or from the monitor.
C21_InfoIsNoOp ==
    [][Inbound("info") =>
          UNCHANGED <<silenceRetryCount, lastMessageTime, silenceTimer, silenceOut,
                      promptContext, turns, llmOut, toolExecs>>]_vars

\* An info event was handled while the monitor was running, had counted a
\* reminder and silence had been building up again.
C21_Witness ==
    /\ lastOp = "info"
    /\ silenceTimer = "running"
    /\ silenceRetryCount >= 1
    /\ now > lastMessageTime

\* C30: handling an interrupt or dtmf event resets the monitor (baseline to
\* now, count to 0) and nothing else: no completion is requested, the
\* transcript is unchanged, and a turn in flight keeps its position in its
\* stream: every turn answered with text has emitted its fragment and its
\* final fragment, whatever events arrived meanwhile.
C30_InterruptLeavesTurnRunning ==
    /\ [][\A type \in {"interrupt", "dtmf"} :
            Inbound(type) =>
                /\ UNCHANGED <<promptContext, turns, llmOut, toolExecs>>
                /\ hasSilenceHandler => (lastMessageTime' = now /\ silenceRetryCount' = 0)]_vars
    /\ [](\A t \in Turns :
            (turns[t].pc = "done" /\ turns[t].reply = "text" /\ turns[t].result = "ok")
                => \E i, j \in 1..Len(llmOut) :
                       /\ i < j
                       /\ llmOut[i] = TextEvent(t, FALSE, FALSE)
                       /\ llmOut[j] = TextEvent(t, TRUE, FALSE))

\* An interrupt arrived while a turn was in the middle of its stream, and
\* reset the running monitor.
C30_Witness ==
    /\ lastOp = "interrupt"
    /\ silenceTimer = "running"
    /\ lastMessageTime = now
    /\ now > hist.start
    /\ \E t \in Turns :
           /\ turns[t].pc = "stream"
           /\ turns[t].pos > 1
           /\ turns[t].pos <= Len(StreamOf(t, turns[t].reply))

\* A turn has ended with the result of end-call or live-agent-handoff.
TerminalResultProduced ==
    \E i \in 1..Len(toolExecs) :
        /\ toolExecs[i].name \in {"end-call", "live-agent-handoff"}
        /\ turns[toolExecs[i].turn].pc = "done"
        /\ turns[toolExecs[i].turn].result = "end"

\* C23: once a terminal tool result has been produced the monitor is stopped:
\* it hands no reminder and no end message to its callback any more.
C23_TerminalResultStopsMonitor ==
    [][TerminalResultProduced => silenceOut' = silenceOut]_vars

\* C25: once setup() has been invoked the transcript is seeded and the monitor
\* has been started, whether the completion of the setup prompt is still
\* pending, has succeeded or has failed.
C25_MonitorStartsWithSetup ==
    relayPc # "none" =>
        /\ \E k \in 1..Len(promptContext) : promptContext[k] = Msg("system", 0)
        /\ silenceTimer # "null"

(***************************************************************************)
(* Properties of the socket handler's error handling.                      *)
(***************************************************************************)
\* C27: when setup() has thrown after the registry lookup succeeded, the
\* server has closed the socket.
C27_SetupFailureClosesSocket ==
    (hist.lookupOk /\ relayPc = "threw") => wsClosedByServer

\* C28: when the transcript-log write a prompt handler awaits has settled,
\* resolved or rejected, and the orchestrator exists, the utterance has been
\* handed to the engine.
C28_LogFailureIsSwallowed ==
    [][\A u \in Turns :
          (/\ promptPcs[u].pc = "suspended"
           /\ promptPcs'[u].pc # "suspended"
           /\ sessionConversationRelay # "null")
          => turns'[u].pc # "idle"]_vars

\* C29: the dial request of an outbound-call request is issued only after its
\* ticket was created, and a request that failed at the creation of the ticket
\* stays failed: it never dials.
C29_NoDialWithoutTicket ==
    /\ [](outboundPc \in {"dialing", "done"} => customerDataMap["AC123"].flexInteraction)
    /\ [][outboundPc = "failed" => outboundPc' = "failed"]_vars

\* The creation of the ticket failed and the request has reported failure.
C29_Witness ==
    /\ outboundPc = "failed"
    /\ customerDataMap["AC123"].present
    /\ ~customerDataMap["AC123"].flexInteraction

\* The response listener has dealt with event e of the engine: it has sent it
\* on the socket, or (part_003, final fragment) has gone to write it to the
\* ticket's transcript.
HandledByListener(e) ==
    IF serverVersion = "v1" \/ ~e.last
    THEN \E k \in 1..Len(wsOut) : wsOut[k] = e
    ELSE \/ \E k \in 1..Len(flexLog) : flexLog[k] = LogEntry("Chemtrails", e.turn)
         \/ "responseListener" \in errors

\* C24: while the completion of the setup prompt is pending the response
\* listener is registered, and every fragment the engine has emitted for the
\* setup prompt has reached that listener.
C24_SetupChunksReachListener ==
    /\ (relayPc = "awaiting" /\ sessionConversationRelay # "null")
           => sessionConversationRelay = "listening"
    /\ \A i \in 1..Len(llmOut) :
           (llmOut[i].turn = 0 /\ llmOut[i].type = "text") => HandledByListener(llmOut[i])

\* part_003, where setup() is called before the listener is registered: the
\* greeting was emitted and its first fragment is on the socket.
C24_Witness ==
    /\ serverVersion = "v2"
    /\ relayPc = "done"
    /\ \E i \in 1..Len(llmOut) : llmOut[i] = TextEvent(0, FALSE, FALSE)
    /\ \E k \in 1..Len(wsOut) : wsOut[k] = TextEvent(0, FALSE, FALSE)

\* C22: a setup message that arrives after the socket's setup has completed
\* changes nothing of the session: the orchestrator with its engine and
\* monitor, the transcript and the session's customer data stay as they are.
C22_SecondSetupIgnored ==
    [][(setupPc = "done" /\ hist'.setups = hist.setups + 1)
          => UNCHANGED <<sessionConversationRelay, sessionCustomerData, relayPc,
                         hasSilenceHandler, promptContext>>]_vars

(***************************************************************************)
(* Isolation of concurrent calls.                                          *)
(***************************************************************************)
\* What belongs to call d: its session variables with its silence state, its
\* transcript and its registry entry.
CallView(d) ==
    <<callSessions.session[d], callSessions.arrays[TranscriptOf(d)],
      customerDataMap[CallToken(d)]>>

C32_RemindersAreWellFormed ==
    /\ \A i \in 1..Len(silenceOut) : silenceOut[i].msg.type \in {"text", "end"}
    /\ \A k \in 1..(silenceRetryThreshold - 1) :
           (silenceRetryCount >= k /\ Len(silenceOut) >= k /\ ~hist.activity) =>
               silenceOut[k].msg.type = "text"

(***************************************************************************)
(* The end of a call.                                                      *)
(***************************************************************************)
\* C33: once the socket of a call has emitted 'close' or 'error', a lookup of
\* the call's correlation token in the Session Registry finds no entry.
C33_EntryRemovedAtCallEnd ==
    (wsEvents # <<>> /\ sessionCustomerData \in Tokens) =>
        RegistryGet(customerDataMap, sessionCustomerData) = "undefined"

\* C34: once the socket has emitted 'close' or 'error' and its handler has run,
\* nothing more is sent on the socket and no further line is posted to the
\* transcript log, whatever completion was in flight.
C34_NothingAfterSocketEnd ==
    [][(wsEvents # <<>> /\ wsEvents' = wsEvents) =>
           (wsOut' = wsOut /\ flexLog' = flexLog)]_vars

(***************************************************************************)
(* Events on a socket without ticket data, and before setup.               *)
(***************************************************************************)
\* C35: on a session whose entry holds no ticket data, no step raises an
\* error, and a prompt that arrives is handed to the engine.
C35_DegradedModeRaisesNothing ==
    [][(/\ sessionConversationRelay # "null"
        /\ sessionCustomerData \in Tokens
        /\ ~HasTaskAttributes(sessionCustomerData))
       => /\ errors' = errors
          /\ \A u \in Turns :
                 (promptPcs[u].pc = "none" /\ promptPcs'[u].pc # "none") =>
                     turns'[u].pc # "idle"]_vars

(***************************************************************************)
(* The acceptance of a call's ticket.                                      *)
(***************************************************************************)
\* C36: once the Ticketing Bridge has accepted the reservation of the call's
\* ticket, the call's registry entry eventually holds the ticket data.
C36_AcceptanceReachesEntry ==
    (flexAccepted /\ wsEvents = <<>>) ~>
        (customerDataMap["AC123"].reservation \/ wsEvents # <<>>)

(***************************************************************************)
(* Tool calls of a reply that asks for more than one.                      *)
(***************************************************************************)
\* C37: every executed tool call has the name and the argument payload (up to
\* its first complete object) of one and the same tool call of the reply.
C37_ExecutedCallIsOneCall ==
    \A i \in 1..Len(toolExecs) :
        LET e == toolExecs[i]
            calls == Reply(turns[e.turn].reply).calls
        IN turns[e.turn].pc = "done" =>
               \E k \in 1..Len(calls) :
                   /\ calls[k].name = e.name
                   /\ e.args \in {calls[k].args, FirstObjectMatch(calls[k].args)}

(***************************************************************************)
(* A socket that ends while its setup is in progress.                      *)
(***************************************************************************)
\* C38: once the socket has emitted 'close' or 'error' and the handler has
\* cleaned up, no Silence Monitor is running for the call, also when setup()
\* was still awaiting its greeting at that moment.
C38_NoMonitorAfterEarlyClose ==
    wsEvents # <<>> => (silenceTimer # "running" /\ ~hasSilenceHandler)

C40_TurnsNotInterleaved ==
    engineKind = "streaming" =>
        \A i, k \in 1..Len(llmOut) :
            (i < k /\ llmOut[i].turn = llmOut[k].turn) =>
                \A j \in i..k : llmOut[j].turn = llmOut[i].turn
====
